---------------------------- MODULE Spec2Model ----------------------------
(***************************************************************************)
(* A model of i.wv2.toar (src/i.wv2.toar.py): the GRASS GIS script that    *)
(* converts WorldView-2 pixel counts to top-of-atmosphere radiance or      *)
(* reflectance.                                                            *)
(*                                                                         *)
(* Numbers.  TLC has 32-bit integers and no floats, so                     *)
(*   - a float that float() reads, and what line 132 subtracts it from 90  *)
(*     to, is the float64 itself: sign, mantissa of 53 bits and exponent   *)
(*     of two, rounded as IEEE 754 rounds, with the subnormal numbers, the *)
(*     infinities, nan and the signed zero;                                *)
(*   - the day count D of EarthSunDistance is kept exactly, as whole days  *)
(*     plus seconds and microseconds (the code's float64 carries it to     *)
(*     about 1e-9 day);                                                    *)
(*   - inside EarthSunDistance an angle is in millidegrees, a cosine and   *)
(*     the distance in millionths (the model's distance is within 3e-6 AU  *)
(*     of the code's);                                                     *)
(*   - the value of the expression handed to r.mapcalc is its value as     *)
(*     arithmetic of real numbers, after spec.md 4.3: r.mapcalc is part of *)
(*     GRASS GIS and not of this program.                                  *)
(* Texts (the content of an XML node) are sequences of characters, each a  *)
(* string: the character itself, or U+xxxx for one TLA+ cannot write.      *)
(***************************************************************************)
EXTENDS Integers, Sequences, FiniteSets, Bags, TLC

VARIABLES
    pc,         \* where the run is: a label of the running function, or "exit"
    environ,    \* os.environ: the names of the environment's variables
    importable, \* the modules an import statement finds
    options,    \* grass.parser()'s options: map, output_prefix, metadata_xml, band
    flags,      \* grass.parser()'s flags: n, r
    file,       \* the metadata file at options.metadata_xml
    band,       \* the band code passed to ExtractVariablesFromMetadata
    output,     \* main's local `output`, the output raster's name
    rastItems,  \* main's `variables`, CalculateTOAR's rastItems
    messages,   \* what grass.message was called with, in order
    engine,     \* the raster engine's calls, in order
    rasters,    \* the rasters present in the mapset
    exitCode,   \* the process's exit status, -1 while it runs
    exception,  \* the exception that ended the run uncaught, or "none"
    cal,        \* the calendar instant whose timestamp is in `date`
    elapsed,    \* whole days from 2000-01-01 to cal's date, counted on the calendar
    date,       \* EarthSunDistance's argument
    dOut,       \* EarthSunDistance's local D
    prevD,      \* D of the call before, on the neighbouring calendar date
    esdOut      \* EarthSunDistance's return value

vars == <<pc, environ, importable, options, flags, file, band, output, rastItems,
          messages, engine, rasters, exitCode, exception, cal, elapsed, date,
          dOut, prevD, esdOut>>

----------------------------------------------------------------------------
(* Bounds of the model *)

\* The years the calendar walk of SpecESD covers, MinYear-01-01 to
\* MaxYear-12-31, around its start on 2000-01-01.
MinYear == 1899
MaxYear == 2100

----------------------------------------------------------------------------
(* Characters *)

DigitChars == <<"0", "1", "2", "3", "4", "5", "6", "7", "8", "9">>

\* The decimal digits of Unicode (category Nd), a row to a script, each row
\* from its zero to its nine: \d, int() and float() read them all.  A
\* character outside ASCII is written U+ and its code point.
UnicodeDigits ==
    <<DigitChars,
      <<"U+0660", "U+0661", "U+0662", "U+0663", "U+0664",
        "U+0665", "U+0666", "U+0667", "U+0668", "U+0669">>,
      <<"U+06F0", "U+06F1", "U+06F2", "U+06F3", "U+06F4",
        "U+06F5", "U+06F6", "U+06F7", "U+06F8", "U+06F9">>,
      <<"U+07C0", "U+07C1", "U+07C2", "U+07C3", "U+07C4",
        "U+07C5", "U+07C6", "U+07C7", "U+07C8", "U+07C9">>,
      <<"U+0966", "U+0967", "U+0968", "U+0969", "U+096A",
        "U+096B", "U+096C", "U+096D", "U+096E", "U+096F">>,
      <<"U+09E6", "U+09E7", "U+09E8", "U+09E9", "U+09EA",
        "U+09EB", "U+09EC", "U+09ED", "U+09EE", "U+09EF">>,
      <<"U+0A66", "U+0A67", "U+0A68", "U+0A69", "U+0A6A",
        "U+0A6B", "U+0A6C", "U+0A6D", "U+0A6E", "U+0A6F">>,
      <<"U+0AE6", "U+0AE7", "U+0AE8", "U+0AE9", "U+0AEA",
        "U+0AEB", "U+0AEC", "U+0AED", "U+0AEE", "U+0AEF">>,
      <<"U+0B66", "U+0B67", "U+0B68", "U+0B69", "U+0B6A",
        "U+0B6B", "U+0B6C", "U+0B6D", "U+0B6E", "U+0B6F">>,
      <<"U+0BE6", "U+0BE7", "U+0BE8", "U+0BE9", "U+0BEA",
        "U+0BEB", "U+0BEC", "U+0BED", "U+0BEE", "U+0BEF">>,
      <<"U+0C66", "U+0C67", "U+0C68", "U+0C69", "U+0C6A",
        "U+0C6B", "U+0C6C", "U+0C6D", "U+0C6E", "U+0C6F">>,
      <<"U+0CE6", "U+0CE7", "U+0CE8", "U+0CE9", "U+0CEA",
        "U+0CEB", "U+0CEC", "U+0CED", "U+0CEE", "U+0CEF">>,
      <<"U+0D66", "U+0D67", "U+0D68", "U+0D69", "U+0D6A",
        "U+0D6B", "U+0D6C", "U+0D6D", "U+0D6E", "U+0D6F">>,
      <<"U+0DE6", "U+0DE7", "U+0DE8", "U+0DE9", "U+0DEA",
        "U+0DEB", "U+0DEC", "U+0DED", "U+0DEE", "U+0DEF">>,
      <<"U+0E50", "U+0E51", "U+0E52", "U+0E53", "U+0E54",
        "U+0E55", "U+0E56", "U+0E57", "U+0E58", "U+0E59">>,
      <<"U+0ED0", "U+0ED1", "U+0ED2", "U+0ED3", "U+0ED4",
        "U+0ED5", "U+0ED6", "U+0ED7", "U+0ED8", "U+0ED9">>,
      <<"U+0F20", "U+0F21", "U+0F22", "U+0F23", "U+0F24",
        "U+0F25", "U+0F26", "U+0F27", "U+0F28", "U+0F29">>,
      <<"U+1040", "U+1041", "U+1042", "U+1043", "U+1044",
        "U+1045", "U+1046", "U+1047", "U+1048", "U+1049">>,
      <<"U+1090", "U+1091", "U+1092", "U+1093", "U+1094",
        "U+1095", "U+1096", "U+1097", "U+1098", "U+1099">>,
      <<"U+17E0", "U+17E1", "U+17E2", "U+17E3", "U+17E4",
        "U+17E5", "U+17E6", "U+17E7", "U+17E8", "U+17E9">>,
      <<"U+1810", "U+1811", "U+1812", "U+1813", "U+1814",
        "U+1815", "U+1816", "U+1817", "U+1818", "U+1819">>,
      <<"U+1946", "U+1947", "U+1948", "U+1949", "U+194A",
        "U+194B", "U+194C", "U+194D", "U+194E", "U+194F">>,
      <<"U+19D0", "U+19D1", "U+19D2", "U+19D3", "U+19D4",
        "U+19D5", "U+19D6", "U+19D7", "U+19D8", "U+19D9">>,
      <<"U+1A80", "U+1A81", "U+1A82", "U+1A83", "U+1A84",
        "U+1A85", "U+1A86", "U+1A87", "U+1A88", "U+1A89">>,
      <<"U+1A90", "U+1A91", "U+1A92", "U+1A93", "U+1A94",
        "U+1A95", "U+1A96", "U+1A97", "U+1A98", "U+1A99">>,
      <<"U+1B50", "U+1B51", "U+1B52", "U+1B53", "U+1B54",
        "U+1B55", "U+1B56", "U+1B57", "U+1B58", "U+1B59">>,
      <<"U+1BB0", "U+1BB1", "U+1BB2", "U+1BB3", "U+1BB4",
        "U+1BB5", "U+1BB6", "U+1BB7", "U+1BB8", "U+1BB9">>,
      <<"U+1C40", "U+1C41", "U+1C42", "U+1C43", "U+1C44",
        "U+1C45", "U+1C46", "U+1C47", "U+1C48", "U+1C49">>,
      <<"U+1C50", "U+1C51", "U+1C52", "U+1C53", "U+1C54",
        "U+1C55", "U+1C56", "U+1C57", "U+1C58", "U+1C59">>,
      <<"U+A620", "U+A621", "U+A622", "U+A623", "U+A624",
        "U+A625", "U+A626", "U+A627", "U+A628", "U+A629">>,
      <<"U+A8D0", "U+A8D1", "U+A8D2", "U+A8D3", "U+A8D4",
        "U+A8D5", "U+A8D6", "U+A8D7", "U+A8D8", "U+A8D9">>,
      <<"U+A900", "U+A901", "U+A902", "U+A903", "U+A904",
        "U+A905", "U+A906", "U+A907", "U+A908", "U+A909">>,
      <<"U+A9D0", "U+A9D1", "U+A9D2", "U+A9D3", "U+A9D4",
        "U+A9D5", "U+A9D6", "U+A9D7", "U+A9D8", "U+A9D9">>,
      <<"U+A9F0", "U+A9F1", "U+A9F2", "U+A9F3", "U+A9F4",
        "U+A9F5", "U+A9F6", "U+A9F7", "U+A9F8", "U+A9F9">>,
      <<"U+AA50", "U+AA51", "U+AA52", "U+AA53", "U+AA54",
        "U+AA55", "U+AA56", "U+AA57", "U+AA58", "U+AA59">>,
      <<"U+ABF0", "U+ABF1", "U+ABF2", "U+ABF3", "U+ABF4",
        "U+ABF5", "U+ABF6", "U+ABF7", "U+ABF8", "U+ABF9">>,
      <<"U+FF10", "U+FF11", "U+FF12", "U+FF13", "U+FF14",
        "U+FF15", "U+FF16", "U+FF17", "U+FF18", "U+FF19">>,
      <<"U+104A0", "U+104A1", "U+104A2", "U+104A3", "U+104A4",
        "U+104A5", "U+104A6", "U+104A7", "U+104A8", "U+104A9">>,
      <<"U+10D30", "U+10D31", "U+10D32", "U+10D33", "U+10D34",
        "U+10D35", "U+10D36", "U+10D37", "U+10D38", "U+10D39">>,
      <<"U+11066", "U+11067", "U+11068", "U+11069", "U+1106A",
        "U+1106B", "U+1106C", "U+1106D", "U+1106E", "U+1106F">>,
      <<"U+110F0", "U+110F1", "U+110F2", "U+110F3", "U+110F4",
        "U+110F5", "U+110F6", "U+110F7", "U+110F8", "U+110F9">>,
      <<"U+11136", "U+11137", "U+11138", "U+11139", "U+1113A",
        "U+1113B", "U+1113C", "U+1113D", "U+1113E", "U+1113F">>,
      <<"U+111D0", "U+111D1", "U+111D2", "U+111D3", "U+111D4",
        "U+111D5", "U+111D6", "U+111D7", "U+111D8", "U+111D9">>,
      <<"U+112F0", "U+112F1", "U+112F2", "U+112F3", "U+112F4",
        "U+112F5", "U+112F6", "U+112F7", "U+112F8", "U+112F9">>,
      <<"U+11450", "U+11451", "U+11452", "U+11453", "U+11454",
        "U+11455", "U+11456", "U+11457", "U+11458", "U+11459">>,
      <<"U+114D0", "U+114D1", "U+114D2", "U+114D3", "U+114D4",
        "U+114D5", "U+114D6", "U+114D7", "U+114D8", "U+114D9">>,
      <<"U+11650", "U+11651", "U+11652", "U+11653", "U+11654",
        "U+11655", "U+11656", "U+11657", "U+11658", "U+11659">>,
      <<"U+116C0", "U+116C1", "U+116C2", "U+116C3", "U+116C4",
        "U+116C5", "U+116C6", "U+116C7", "U+116C8", "U+116C9">>,
      <<"U+11730", "U+11731", "U+11732", "U+11733", "U+11734",
        "U+11735", "U+11736", "U+11737", "U+11738", "U+11739">>,
      <<"U+118E0", "U+118E1", "U+118E2", "U+118E3", "U+118E4",
        "U+118E5", "U+118E6", "U+118E7", "U+118E8", "U+118E9">>,
      <<"U+11950", "U+11951", "U+11952", "U+11953", "U+11954",
        "U+11955", "U+11956", "U+11957", "U+11958", "U+11959">>,
      <<"U+11C50", "U+11C51", "U+11C52", "U+11C53", "U+11C54",
        "U+11C55", "U+11C56", "U+11C57", "U+11C58", "U+11C59">>,
      <<"U+11D50", "U+11D51", "U+11D52", "U+11D53", "U+11D54",
        "U+11D55", "U+11D56", "U+11D57", "U+11D58", "U+11D59">>,
      <<"U+11DA0", "U+11DA1", "U+11DA2", "U+11DA3", "U+11DA4",
        "U+11DA5", "U+11DA6", "U+11DA7", "U+11DA8", "U+11DA9">>,
      <<"U+16A60", "U+16A61", "U+16A62", "U+16A63", "U+16A64",
        "U+16A65", "U+16A66", "U+16A67", "U+16A68", "U+16A69">>,
      <<"U+16AC0", "U+16AC1", "U+16AC2", "U+16AC3", "U+16AC4",
        "U+16AC5", "U+16AC6", "U+16AC7", "U+16AC8", "U+16AC9">>,
      <<"U+16B50", "U+16B51", "U+16B52", "U+16B53", "U+16B54",
        "U+16B55", "U+16B56", "U+16B57", "U+16B58", "U+16B59">>,
      <<"U+1D7CE", "U+1D7CF", "U+1D7D0", "U+1D7D1", "U+1D7D2",
        "U+1D7D3", "U+1D7D4", "U+1D7D5", "U+1D7D6", "U+1D7D7">>,
      <<"U+1D7D8", "U+1D7D9", "U+1D7DA", "U+1D7DB", "U+1D7DC",
        "U+1D7DD", "U+1D7DE", "U+1D7DF", "U+1D7E0", "U+1D7E1">>,
      <<"U+1D7E2", "U+1D7E3", "U+1D7E4", "U+1D7E5", "U+1D7E6",
        "U+1D7E7", "U+1D7E8", "U+1D7E9", "U+1D7EA", "U+1D7EB">>,
      <<"U+1D7EC", "U+1D7ED", "U+1D7EE", "U+1D7EF", "U+1D7F0",
        "U+1D7F1", "U+1D7F2", "U+1D7F3", "U+1D7F4", "U+1D7F5">>,
      <<"U+1D7F6", "U+1D7F7", "U+1D7F8", "U+1D7F9", "U+1D7FA",
        "U+1D7FB", "U+1D7FC", "U+1D7FD", "U+1D7FE", "U+1D7FF">>,
      <<"U+1E140", "U+1E141", "U+1E142", "U+1E143", "U+1E144",
        "U+1E145", "U+1E146", "U+1E147", "U+1E148", "U+1E149">>,
      <<"U+1E2F0", "U+1E2F1", "U+1E2F2", "U+1E2F3", "U+1E2F4",
        "U+1E2F5", "U+1E2F6", "U+1E2F7", "U+1E2F8", "U+1E2F9">>,
      <<"U+1E950", "U+1E951", "U+1E952", "U+1E953", "U+1E954",
        "U+1E955", "U+1E956", "U+1E957", "U+1E958", "U+1E959">>,
      <<"U+1FBF0", "U+1FBF1", "U+1FBF2", "U+1FBF3", "U+1FBF4",
        "U+1FBF5", "U+1FBF6", "U+1FBF7", "U+1FBF8", "U+1FBF9">>>>

\* [lo-hi] of a regular expression.
AsciiDigits(lo, hi) == {DigitChars[v + 1] : v \in lo..hi}

\* \d of a regular expression on str.
AnyDigit == {UnicodeDigits[b][v] : b \in DOMAIN UnicodeDigits, v \in 1..10}

IsDigit(c) == c \in AnyDigit

\* The digit's value.
DigitValue ==
    [c \in AnyDigit |->
        CHOOSE v \in 0..9 : \E b \in DOMAIN UnicodeDigits : UnicodeDigits[b][v + 1] = c]

DigitVal(c) == DigitValue[c]

\* The white space int() and float() ignore around a number: what
\* str.isspace() holds of, but for U+001C to U+001F.
WhiteSpace ==
    {" ", "\t", "\n", "\r", "\f", "U+000B", "U+0085", "U+00A0", "U+1680", "U+2000", "U+2001", "U+2002",
     "U+2003", "U+2004", "U+2005", "U+2006", "U+2007", "U+2008", "U+2009",
     "U+200A", "U+2028", "U+2029", "U+202F", "U+205F", "U+3000"}

\* The text from its first character that is no white space to its last.
Inked(s) == {i \in 1..Len(s) : s[i] \notin WhiteSpace}

Strip(s) ==
    IF Inked(s) = {} THEN <<>>
    ELSE SubSeq(s, CHOOSE i \in Inked(s) : \A j \in Inked(s) : i <= j,
                   CHOOSE i \in Inked(s) : \A j \in Inked(s) : i >= j)

RECURSIVE Pow10(_)
Pow10(k) == IF k = 0 THEN 1 ELSE 10 * Pow10(k - 1)

\* The value of the n digits of s from position i on.
RECURSIVE NumAt(_, _, _)
NumAt(s, i, n) ==
    IF n = 0 THEN 0 ELSE 10 * NumAt(s, i, n - 1) + DigitVal(s[i + n - 1])

\* n written with w digits, zero-padded.
RECURSIVE Digits(_, _)
Digits(n, w) ==
    IF w = 0 THEN <<>> ELSE Append(Digits(n \div 10, w - 1), DigitChars[(n % 10) + 1])

\* How many zeros the digits d begin with.
LeadingZeros(d) ==
    (CHOOSE j \in 1..(Len(d) + 1) :
        /\ j = Len(d) + 1 \/ DigitVal(d[j]) # 0
        /\ \A k \in 1..(j - 1) : DigitVal(d[k]) = 0) - 1

\* How many digits n > 0 is written with; 0 for 0.
RECURSIVE NumDigits(_)
NumDigits(n) == IF n = 0 THEN 0 ELSE 1 + NumDigits(n \div 10)

----------------------------------------------------------------------------
(* Natural numbers of any size *)

\* A natural number is the sequence of its digits in base 1000, the lowest
\* first and the highest not zero; <<>> is zero.
\* The number n < 2^31.
Small(n) ==
    IF n = 0 THEN <<>>
    ELSE IF n < 1000 THEN <<n>>
    ELSE IF n < 1000000 THEN <<n % 1000, n \div 1000>>
    ELSE IF n < 1000000000 THEN <<n % 1000, (n \div 1000) % 1000, n \div (1000000)>>
    ELSE <<n % 1000, (n \div 1000) % 1000, (n \div (1000000)) % 1000,
           n \div (1000000000)>>

\* The columns col[from..to] with the carry c coming in: each is brought
\* below the base, what it has above is carried to the next, and a column
\* below zero borrows from the next.
RECURSIVE Carried(_, _, _, _)
CarriedOn(left, col, from, to) ==
    [limbs |-> left.limbs \o Carried(col, from, to, left.carry).limbs,
     carry |-> Carried(col, from, to, left.carry).carry]

Carried(col, from, to, c) ==
    IF from > to THEN [limbs |-> <<>>, carry |-> c]
    ELSE IF from = to
    THEN [limbs |-> <<(col[from] + c) % 1000>>, carry |-> (col[from] + c) \div 1000]
    ELSE CarriedOn(Carried(col, from, (from + to) \div 2, c), col, (from + to) \div 2 + 1, to)

\* a without the zeros above its highest digit.
Canonical(a) ==
    IF \A i \in 1..Len(a) : a[i] = 0 THEN <<>>
    ELSE SubSeq(a, 1, CHOOSE i \in 1..Len(a) : a[i] # 0 /\ \A j \in (i + 1)..Len(a) : a[j] = 0)

\* The number whose columns are col, none carrying a borrow off the end.
Normal(col) ==
    Canonical(Carried(col, 1, Len(col), 0).limbs \o Small(Carried(col, 1, Len(col), 0).carry))

\* a + b.
Plus(a, b) ==
    Normal([i \in 1..(IF Len(a) >= Len(b) THEN Len(a) ELSE Len(b)) |->
               (IF i <= Len(a) THEN a[i] ELSE 0) + (IF i <= Len(b) THEN b[i] ELSE 0)])

\* a - b, for a >= b.
Minus(a, b) == Normal([i \in 1..Len(a) |-> a[i] - (IF i <= Len(b) THEN b[i] ELSE 0)])

\* a < b.
Less(a, b) ==
    \/ Len(a) < Len(b)
    \/ /\ Len(a) = Len(b)
       /\ \E i \in 1..Len(a) : a[i] < b[i] /\ \A j \in (i + 1)..Len(a) : a[j] = b[j]

\* The sum of a[i] * b[j + 1 - i] for i in from..to.
RECURSIVE Column(_, _, _, _, _)
Column(a, b, j, from, to) ==
    IF from = to THEN a[from] * b[j + 1 - from]
    ELSE Column(a, b, j, from, (from + to) \div 2)
       + Column(a, b, j, (from + to) \div 2 + 1, to)

\* a * b.
Product(a, b) ==
    IF a = <<>> \/ b = <<>> THEN <<>>
    ELSE Normal([j \in 1..(Len(a) + Len(b) - 1) |->
                    Column(a, b, j, IF j < Len(b) THEN 1 ELSE j + 1 - Len(b),
                           IF j < Len(a) THEN j ELSE Len(a))])

\* x^k, by the square of x^(k div 2).
RECURSIVE Power(_, _)
Squared(a, k, x) == IF k % 2 = 0 THEN Product(a, a) ELSE Product(Product(a, a), Small(x))

Power(x, k) == IF k = 0 THEN <<1>> ELSE Squared(Power(x, k \div 2), k, x)

\* How many decimal digits a is written with.
DecimalLen(a) == IF a = <<>> THEN 0 ELSE 3 * (Len(a) - 1) + NumDigits(a[Len(a)])

\* The decimal digit of a at 10^i; none stands at i < 0.
DecimalAt(a, i) ==
    IF i < 0 \/ i >= 3 * Len(a) THEN 0 ELSE (a[i \div 3 + 1] \div Pow10(i % 3)) % 10

\* The number of the n <= 9 decimal digits of a from 10^i upwards.
RECURSIVE Piece(_, _, _)
Piece(a, i, n) == IF n = 0 THEN 0 ELSE DecimalAt(a, i) + 10 * Piece(a, i + 1, n - 1)

\* The number written with the digits d.
Natural(d) ==
    Canonical([k \in 1..((Len(d) + 2) \div 3) |->
                  NumAt(d, IF Len(d) - 3 * k + 1 < 1 THEN 1 ELSE Len(d) - 3 * k + 1,
                        IF Len(d) - 3 * k + 1 < 1 THEN Len(d) - 3 * (k - 1) ELSE 3)])

----------------------------------------------------------------------------
(* float64 *)

\* s * (hi * 10^8 + lo) * 2^q, the mantissa hi * 10^8 + lo written in two
\* halves of eight decimal digits: s is 1 or -1, the mantissa is below
\* 2^53, and it is 2^52 at least unless q = -1074, the least exponent; 971
\* is the greatest.  Zero is hi = lo = 0, q = 0.  kind tells the infinities
\* (s is their sign) and nan from the finite numbers.
Fin(s, hi, lo, q) == [kind |-> "fin", s |-> s, hi |-> hi, lo |-> lo, q |-> q]

Inf(s) == [kind |-> "inf", s |-> s, hi |-> 0, lo |-> 0, q |-> 0]

NaN == [kind |-> "nan", s |-> 1, hi |-> 0, lo |-> 0, q |-> 0]

IsZero(a) == a.kind = "fin" /\ a.hi = 0 /\ a.lo = 0

Mantissa(a) ==
    Plus(Small(a.lo), Product(Small(a.hi), <<0, 0, 100>>))

\* t * 10^e is a number to be rounded to a whole one, the nearest, and of
\* two equally near the even one: 1 where that is the one above.
RoundUp(t, e) ==
    IF \/ DecimalAt(t, -e - 1) > 5
       \/ /\ DecimalAt(t, -e - 1) = 5
          /\ \/ DecimalAt(t, -e) % 2 = 1
             \/ \E j \in 1..Len(t) :
                   /\ t[j] # 0
                   /\ \/ 3 * j <= -e - 1
                      \/ 3 * (j - 1) < -e - 1 /\ t[j] % Pow10(-e - 1 - 3 * (j - 1)) # 0
    THEN 1 ELSE 0

\* The float64 of the mantissa hi * 10^8 + lo and the exponent q: a
\* mantissa rounded up to 2^53 is 2^52 at the next exponent, and past the
\* greatest exponent stands infinity.
Packed(s, hi, lo, q) ==
    IF hi = 0 /\ lo = 0 THEN Fin(s, 0, 0, 0)
    ELSE IF hi > 90071992 \/ (hi = 90071992 /\ lo >= 54740992)
    THEN (IF q >= 971 THEN Inf(s) ELSE Fin(s, 45035996, 27370496, q + 1))
    ELSE Fin(s, hi, lo, q)

\* t * 10^e is v / 2^q, below 2^53 unless q is the greatest exponent: q
\* falls and t doubles until t * 10^e is 2^52 at least or q is the least
\* exponent, and t * 10^e rounded is the mantissa.
RECURSIVE Settled(_, _, _, _)
Settled(s, t, e, q) ==
    IF DecimalLen(t) + e > 16 THEN Inf(s)
    ELSE IF \/ q = -1074
            \/ Piece(t, 8 - e, 8) > 45035996
            \/ Piece(t, 8 - e, 8) = 45035996 /\ Piece(t, -e, 8) >= 27370496
    THEN Packed(s, Piece(t, 8 - e, 8) + (Piece(t, -e, 8) + RoundUp(t, e)) \div 100000000,
                (Piece(t, -e, 8) + RoundUp(t, e)) % 100000000, q)
    ELSE Settled(s, Product(t, <<2>>), e, q - 1)

\* v / 2^q for v = n * 2^p * 10^e: 2^(p - q) is 5^(q - p) / 10^(q - p)
\* where p < q.
Scaled(s, n, p, e, q) ==
    IF p >= q THEN Settled(s, Product(n, Power(2, p - q)), e, q)
    ELSE Settled(s, Product(n, Power(5, q - p)), e - (q - p), q)

\* An exponent b with n * 2^p * 10^e < 2^b, and 2^(b - 4) below it: p, the
\* bits of n's highest digit, and those of the power of ten it stands at,
\* which is below 10^600.
Bits(n, p, e) ==
    p + (CHOOSE k \in 1..10 : n[Len(n)] < 2^k /\ n[Len(n)] >= 2^(k - 1))
      + (IF 3 * (Len(n) - 1) + e >= 0
         THEN ((3 * (Len(n) - 1) + e) * 3321929) \div 1000000 + 1
         ELSE -(((-(3 * (Len(n) - 1) + e)) * 3321928) \div 1000000))

\* The float64 nearest to s * n * 2^p * 10^e, n > 0.
Nearest(s, n, p, e) ==
    Scaled(s, n, p, e,
           IF Bits(n, p, e) - 53 > 971 THEN 971
           ELSE IF Bits(n, p, e) - 53 < -1074 THEN -1074
           ELSE Bits(n, p, e) - 53)

\* The float64 nearest to s * n * 10^e: 10^310 is past the greatest
\* float64, and below 10^-330 the nearest is zero.
Float64(s, n, e) ==
    IF n = <<>> THEN Fin(s, 0, 0, 0)
    ELSE IF DecimalLen(n) + e > 310 THEN Inf(s)
    ELSE IF DecimalLen(n) + e < -330 THEN Fin(s, 0, 0, 0)
    ELSE Nearest(s, n, 0, e)

FromInt(n) == IF n < 0 THEN Float64(-1, Small(-n), 0) ELSE Float64(1, Small(n), 0)

\* x * 2^q of the sign s and y * 2^q of the sign sy, added and rounded.
SumOf(s, x, sy, y, q) ==
    IF sy = s THEN Nearest(s, Plus(x, y), q, 0)
    ELSE IF x = y THEN Fin(1, 0, 0, 0)
    ELSE IF Less(x, y) THEN Nearest(sy, Minus(y, x), q, 0)
    ELSE Nearest(s, Minus(x, y), q, 0)

\* a + b of finite a and b, neither zero, a.q >= b.q: more than 60
\* exponents below a, b is too small to move it.
AddFinite(a, b) ==
    IF a.q - b.q > 60 THEN a
    ELSE SumOf(a.s, Product(Mantissa(a), Power(2, a.q - b.q)), b.s, Mantissa(b), b.q)

\* a + b.
Add(a, b) ==
    IF a.kind = "nan" \/ b.kind = "nan" THEN NaN
    ELSE IF a.kind = "inf" THEN (IF b.kind = "inf" /\ b.s # a.s THEN NaN ELSE a)
    ELSE IF b.kind = "inf" THEN b
    ELSE IF IsZero(a) THEN (IF IsZero(b) /\ a.s # b.s THEN Fin(1, 0, 0, 0) ELSE b)
    ELSE IF IsZero(b) THEN a
    ELSE IF a.q >= b.q THEN AddFinite(a, b)
    ELSE AddFinite(b, a)

\* a - b.
Sub(a, b) == Add(a, IF b.kind = "nan" THEN b ELSE [b EXCEPT !.s = -b.s])

----------------------------------------------------------------------------
(* datetime.strptime(date, "%Y-%m-%dT%H:%M:%S.%fZ") *)

NoTime == [year |-> 0, month |-> 0, day |-> 0, hour |-> 0, minute |-> 0,
           second |-> 0, microsecond |-> 0]

IsLeap(y) == (y % 4 = 0 /\ y % 100 # 0) \/ y % 400 = 0

DaysInMonth(y, m) ==
    IF m = 2 THEN (IF IsLeap(y) THEN 29 ELSE 28)
    ELSE IF m \in {4, 6, 9, 11} THEN 30 ELSE 31

\* A directive of the format: the alternatives of its regular expression,
\* in the order they are tried, each a sequence of character classes.
Group(alts) == [group |-> TRUE, alts |-> alts]

\* A character of the format that stands for itself; the expression is
\* compiled to ignore case.
Literal(chars) == [group |-> FALSE, alts |-> <<(<<chars>>)>>]

\* The regular expression strptime compiles the format to.
Format ==
    <<Group(<<(<<AnyDigit, AnyDigit, AnyDigit, AnyDigit>>)>>),      \* %Y  \d\d\d\d
      Literal({"-"}),
      Group(<< <<AsciiDigits(1, 1), AsciiDigits(0, 2)>>,            \* %m  1[0-2]
               <<AsciiDigits(0, 0), AsciiDigits(1, 9)>>,            \*     0[1-9]
               <<AsciiDigits(1, 9)>> >>),                           \*     [1-9]
      Literal({"-"}),
      Group(<< <<AsciiDigits(3, 3), AsciiDigits(0, 1)>>,            \* %d  3[0-1]
               <<AsciiDigits(1, 2), AnyDigit>>,                     \*     [1-2]\d
               <<AsciiDigits(0, 0), AsciiDigits(1, 9)>>,            \*     0[1-9]
               <<AsciiDigits(1, 9)>>,                               \*     [1-9]
               <<{" "}, AsciiDigits(1, 9)>> >>),                    \*     " "[1-9]
      Literal({"T", "t"}),
      Group(<< <<AsciiDigits(2, 2), AsciiDigits(0, 3)>>,            \* %H  2[0-3]
               <<AsciiDigits(0, 1), AnyDigit>>,                     \*     [0-1]\d
               <<AnyDigit>> >>),                                    \*     \d
      Literal({":"}),
      Group(<< <<AsciiDigits(0, 5), AnyDigit>>,                     \* %M  [0-5]\d
               <<AnyDigit>> >>),                                    \*     \d
      Literal({":"}),
      Group(<< <<AsciiDigits(6, 6), AsciiDigits(0, 1)>>,            \* %S  6[0-1]
               <<AsciiDigits(0, 5), AnyDigit>>,                     \*     [0-5]\d
               <<AnyDigit>> >>),                                    \*     \d
      Literal({"."}),
      Group([n \in 1..6 |-> [j \in 1..(7 - n) |-> AsciiDigits(0, 9)]]),   \* %f  [0-9]{1,6}
      Literal({"Z", "z"})>>

NoMatch == [ok |-> FALSE, end |-> 0, found |-> <<>>]

\* The characters of s from position i on are of alt's classes.
AltMatches(s, i, alt) ==
    /\ i + Len(alt) - 1 <= Len(s)
    /\ \A j \in 1..Len(alt) : s[i + j - 1] \in alt[j]

\* re.match: s from position i on against the format from item k on, the
\* alternatives of an item in their order and the next one when what
\* follows does not match; found holds the groups' texts.
RECURSIVE Match(_, _, _, _)
RECURSIVE TryAlternative(_, _, _, _, _)
OrNextAlternative(r, s, i, k, found, a) ==
    IF r.ok THEN r ELSE TryAlternative(s, i, k, found, a + 1)

Taken(s, i, k, found, a, n) ==
    OrNextAlternative(
        Match(s, i + n, k + 1,
              IF Format[k].group THEN Append(found, SubSeq(s, i, i + n - 1)) ELSE found),
        s, i, k, found, a)

TryAlternative(s, i, k, found, a) ==
    IF a > Len(Format[k].alts) THEN NoMatch
    ELSE IF AltMatches(s, i, Format[k].alts[a])
    THEN Taken(s, i, k, found, a, Len(Format[k].alts[a]))
    ELSE TryAlternative(s, i, k, found, a + 1)

Match(s, i, k, found) ==
    IF k > Len(Format) THEN [ok |-> TRUE, end |-> i, found |-> found]
    ELSE TryAlternative(s, i, k, found, 1)

\* int(text) of a group's text.
IntOf(chars) == NumAt(Strip(chars), 1, Len(Strip(chars)))

\* The fraction of a second, its digits padded with zeros to six.
Microseconds(chars) == NumAt(chars, 1, Len(chars)) * Pow10(6 - Len(chars))

\* The datetime of the groups found, after the constructor's own checks:
\* no year 0, no day the month has not, no second beyond 59.
ToDatetime(year, month, day, hour, minute, second, microsecond) ==
    IF year >= 1 /\ day <= DaysInMonth(year, month) /\ second <= 59
    THEN [ok |-> TRUE,
          t  |-> [year |-> year, month |-> month, day |-> day, hour |-> hour,
                  minute |-> minute, second |-> second, microsecond |-> microsecond]]
    ELSE [ok |-> FALSE, t |-> NoTime]

\* ValueError when the text does not match, or when it goes on after the
\* match ("unconverted data remains").
StrptimeOf(s, m) ==
    IF m.ok /\ m.end = Len(s) + 1
    THEN ToDatetime(IntOf(m.found[1]), IntOf(m.found[2]), IntOf(m.found[3]),
                    IntOf(m.found[4]), IntOf(m.found[5]), IntOf(m.found[6]),
                    Microseconds(m.found[7]))
    ELSE [ok |-> FALSE, t |-> NoTime]

\* [ok |-> FALSE]: ValueError; otherwise t holds the datetime's fields.
Strptime(s) == StrptimeOf(s, Match(s, 1, 1, <<>>))

\* The timestamp the metadata's producer writes for a calendar instant:
\* YYYY-MM-DDTHH:MM:SS.ffffffZ.
FormatTimestamp(t) ==
    Digits(t.year, 4) \o <<"-">> \o Digits(t.month, 2) \o <<"-">> \o
    Digits(t.day, 2) \o <<"T">> \o Digits(t.hour, 2) \o <<":">> \o
    Digits(t.minute, 2) \o <<":">> \o Digits(t.second, 2) \o <<".">> \o
    Digits(t.microsecond, 6) \o <<"Z">>

----------------------------------------------------------------------------
(* EarthSunDistance *)

\* cos of 0..90 degrees, in billionths.
CosTable ==
    <<1000000000, 999847695, 999390827, 998629534, 997564050, 996194698,
      994521895, 992546151, 990268068, 987688340, 984807753, 981627183,
      978147600, 974370064, 970295726, 965925826, 961261695, 956304755,
      951056516, 945518575, 939692620, 933580426, 927183854, 920504853,
      913545457, 906307787, 898794046, 891006524, 882947592, 874619707,
      866025403, 857167300, 848048096, 838670567, 829037572, 819152044,
      809016994, 798635510, 788010753, 777145961, 766044443, 754709580,
      743144825, 731353701, 719339800, 707106781, 694658370, 681998360,
      669130606, 656059028, 642787609, 629320391, 615661475, 601815023,
      587785252, 573576436, 559192903, 544639035, 529919264, 515038074,
      500000000, 484809620, 469471562, 453990499, 438371146, 422618261,
      406736643, 390731128, 374606593, 358367949, 342020143, 325568154,
      309016994, 292371704, 275637355, 258819045, 241921895, 224951054,
      207911690, 190808995, 173648177, 156434465, 139173100, 121869343,
      104528463, 87155742, 69756473, 52335956, 34899496, 17452406,
      0>>

\* cos of i whole degrees, 0 <= i <= 90, in millionths.
CosMillionths(i) == (CosTable[i + 1] + 500) \div 1000

\* cos of m millidegrees, 0 <= m <= 90000, interpolated between whole degrees.
CosQuadrant(m) ==
    LET i == m \div 1000
        f == m % 1000
    IN  IF f = 0 THEN CosMillionths(i)
        ELSE CosMillionths(i) + ((CosMillionths(i + 1) - CosMillionths(i)) * f) \div 1000

\* math.cos of an angle given in millidegrees, in millionths.
Cos(mdeg) ==
    LET r == mdeg % 360000
        h == IF r > 180000 THEN 360000 - r ELSE r
    IN  IF h > 90000 THEN -CosQuadrant(180000 - h) ELSE CosQuadrant(h)

\* Lines 91-96: January and February count as months 13 and 14 of the year before.
JulianMonth(t) == IF t.month = 1 \/ t.month = 2 THEN t.month + 12 ELSE t.month

\* JulianYear without the step back for January and February.
JulianYearUnshifted(t) == t.year

JulianYear(t) == IF t.month = 1 \/ t.month = 2 THEN t.year - 1 ELSE t.year

\* Lines 98-99: UT, the time of day, here as seconds and microseconds.
UTSeconds(t) == (t.hour * 60 + t.minute) * 60 + t.second

\* Line 100.
CenturyA(year) == year \div 100

\* Line 101.
CenturyB(year) == 2 - CenturyA(year) + CenturyA(year) \div 4

\* Line 102: int(365.25 * (year + 4716)); 365.25 is exact in float64.
YearDays(year) == (1461 * (year + 4716)) \div 4

\* Line 102: int(30.6001 * (month + 1)).
MonthDays(month) == (306001 * (month + 1)) \div 10000

\* Lines 102-104: D = JD - 2451545.0 with
\* JD = YearDays + MonthDays + day + UT / 24.0 + B - 1524.5, as
\* days + (sec + usec / 1e6) / 86400 with sec counted from noon.
DaysSinceJ2000(t) ==
    [days |-> YearDays(JulianYear(t)) + MonthDays(JulianMonth(t)) + t.day
              + CenturyB(JulianYear(t)) - 1524 - 2451545,
     sec  |-> UTSeconds(t) - 43200,
     usec |-> t.microsecond]

\* Line 105: 357.529 + 0.98560028 * D in millidegrees, less the whole
\* turns, which the cosines of line 107 do not tell (math.radians and
\* math.cos together are Cos); 0.98560028 = 0.985 + 15007 / 25000000.
MeanAnomaly(D) ==
    (357529 + 985 * (D.days % 360000)
            + 15007 * (D.days \div 25000) + (15007 * (D.days % 25000)) \div 25000
            + (9856 * D.sec) \div 864000) % 360000

\* Distance with 0.1671 for 0.01671.
DistanceCoefficientSlip(g) ==
    1000140 - (1671 * Cos(g)) \div 10000 - (14 * Cos(2 * g)) \div 100000

\* Line 107, in millionths of an astronomical unit.
Distance(g) ==
    1000140 - (1671 * Cos(g)) \div 100000 - (14 * Cos(2 * g)) \div 100000

\* Lines 91-107, of the datetime strptime returned.
DistanceAt(t) ==
    [raised |-> "none", D |-> DaysSinceJ2000(t),
     value |-> Distance(MeanAnomaly(DaysSinceJ2000(t)))]

Failed(exc) == [raised |-> exc, D |-> DaysSinceJ2000(NoTime), value |-> 0]

AfterStrptime(p) == IF p.ok THEN DistanceAt(p.t) ELSE Failed("ValueError")

\* Lines 86-107.  A date that is no text (None) is a TypeError, one that
\* strptime rejects a ValueError.
EarthSunDistance(d) ==
    IF d.kind # "text" THEN Failed("TypeError") ELSE AfterStrptime(Strptime(d.chars))

----------------------------------------------------------------------------
(* float(text) *)

NoNumber == [ok |-> FALSE, v |-> NaN]

Lower(c) ==
    IF c = "I" THEN "i" ELSE IF c = "N" THEN "n" ELSE IF c = "F" THEN "f"
    ELSE IF c = "T" THEN "t" ELSE IF c = "Y" THEN "y" ELSE IF c = "A" THEN "a"
    ELSE c

\* How many digits s holds from position i on.
DigitRun(s, i) ==
    (CHOOSE j \in i..(Len(s) + 1) :
        /\ j = Len(s) + 1 \/ ~IsDigit(s[j])
        /\ \A k \in i..(j - 1) : IsDigit(s[k])) - i

Has(s, i, chars) == i <= Len(s) /\ s[i] \in chars

\* The parts of [sign] digits [. digits] [e [sign] digits] that s begins
\* with, by their lengths: the sign, the digits before the point, the
\* point, the digits after it,
SignLen(s) == IF Has(s, 1, {"+", "-"}) THEN 1 ELSE 0

IntLen(s) == DigitRun(s, SignLen(s) + 1)

PointLen(s) == IF Has(s, SignLen(s) + IntLen(s) + 1, {"."}) THEN 1 ELSE 0

FracLen(s) == IF PointLen(s) = 1 THEN DigitRun(s, SignLen(s) + IntLen(s) + 2) ELSE 0

MantissaLen(s) == SignLen(s) + IntLen(s) + PointLen(s) + FracLen(s)

\* and, m being the mantissa's length, the e, the exponent's sign and its
\* digits.
ELen(s, m) == IF Has(s, m + 1, {"e", "E"}) THEN 1 ELSE 0

ESignLen(s, m) == IF ELen(s, m) = 1 /\ Has(s, m + 2, {"+", "-"}) THEN 1 ELSE 0

ExpLen(s, m) == IF ELen(s, m) = 1 THEN DigitRun(s, m + 2 + ESignLen(s, m)) ELSE 0

\* How many digits the mantissa has from its first that is not zero; the
\* zeros after the point that no other digit stands before do not count.
SignificantLen(s) ==
    IF LeadingZeros(SubSeq(s, SignLen(s) + 1, SignLen(s) + IntLen(s))) < IntLen(s)
    THEN IntLen(s) - LeadingZeros(SubSeq(s, SignLen(s) + 1, SignLen(s) + IntLen(s))) + FracLen(s)
    ELSE FracLen(s) - LeadingZeros(SubSeq(s, SignLen(s) + IntLen(s) + 2,
                                          SignLen(s) + IntLen(s) + 1 + FracLen(s)))

\* s is of the grammar: a digit on one side of the point at least, digits
\* after an e, and nothing more; and float() reads no mantissa of more than
\* 10^9 digits, before the point and after it or after it alone.
WellFormed(s, m) ==
    /\ IntLen(s) + FracLen(s) >= 1
    /\ SignificantLen(s) <= 1000000000
    /\ FracLen(s) <= 1000000000
    /\ ELen(s, m) = 1 => ExpLen(s, m) >= 1
    /\ Len(s) = m + ELen(s, m) + ESignLen(s, m) + ExpLen(s, m)

\* The exponent written with the digits d, of which the first z are zeros:
\* float() reads one of more than nine digits after them as 1100000000.
Exponent(d, z) == IF Len(d) - z > 9 THEN 1100000000 ELSE NumAt(d, z + 1, Len(d) - z)

ExponentOf(s, m) ==
    IF ExpLen(s, m) = 0 THEN 0
    ELSE IF Has(s, m + 2, {"-"}) THEN -Exponent(SubSeq(s, m + 3, Len(s)), LeadingZeros(SubSeq(s, m + 3, Len(s))))
    ELSE Exponent(SubSeq(s, m + 2 + ESignLen(s, m), Len(s)),
                  LeadingZeros(SubSeq(s, m + 2 + ESignLen(s, m), Len(s))))

\* The mantissa's digits, before and after the point.
MantissaDigits(s) ==
    SubSeq(s, SignLen(s) + 1, SignLen(s) + IntLen(s))
    \o SubSeq(s, SignLen(s) + IntLen(s) + 2, SignLen(s) + IntLen(s) + 1 + FracLen(s))

ParseNumber(s, m) ==
    IF WellFormed(s, m)
    THEN [ok |-> TRUE,
          v  |-> Float64(IF Has(s, 1, {"-"}) THEN -1 ELSE 1, Natural(MantissaDigits(s)),
                         ExponentOf(s, m) - FracLen(s))]
    ELSE NoNumber

\* An underscore stands between two digits.
UnderscoresGroupDigits(s) ==
    \A i \in 1..Len(s) :
        s[i] = "_" => i > 1 /\ i < Len(s) /\ IsDigit(s[i - 1]) /\ IsDigit(s[i + 1])

WithoutUnderscores(s) == SelectSeq(s, LAMBDA c : c # "_")

ParseGrouped(s) ==
    IF UnderscoresGroupDigits(s)
    THEN ParseNumber(WithoutUnderscores(s), MantissaLen(WithoutUnderscores(s)))
    ELSE NoNumber

\* The text without its sign.
Unsigned(s) == IF Has(s, 1, {"+", "-"}) THEN Tail(s) ELSE s

\* inf, infinity and nan, in either case, are numbers.
ParseStripped(s, word) ==
    IF word \in {<<"i", "n", "f">>, <<"i", "n", "f", "i", "n", "i", "t", "y">>,
                 <<"n", "a", "n">>}
    THEN [ok |-> TRUE, v |-> IF word = <<"n", "a", "n">> THEN NaN ELSE Inf(IF Has(s, 1, {"-"}) THEN -1 ELSE 1)]
    ELSE ParseGrouped(s)

\* float() of a string, the white space around it stripped first.
\* [ok |-> FALSE]: ValueError.
ParseFloat(chars) ==
    ParseStripped(Strip(chars), [j \in 1..Len(Unsigned(Strip(chars))) |->
                                    Lower(Unsigned(Strip(chars))[j])])

----------------------------------------------------------------------------
(* The metadata file and etree *)

\* An element without text: its .text is None.
None == [kind |-> "none", chars |-> <<>>]

Text(chars) == [kind |-> "text", chars |-> chars]

\* The file at metadata_xml: not there, not well-formed XML, or a document,
\* given by the text of every element that root.find can reach.
MissingFile == [state |-> "missing", nodes |-> <<>>]

MalformedFile == [state |-> "malformed", nodes |-> <<>>]

Document(nodes) == [state |-> "ok", nodes |-> nodes]

\* root.find(path): the element, or None when the document has none there.
Find(root, path) ==
    IF path \in DOMAIN root.nodes
    THEN [found |-> TRUE, text |-> root.nodes[path]]
    ELSE [found |-> FALSE, text |-> None]

\* Lines 122-130.
SSI ==
    [BAND_P  |-> Float64(1, Small(15808140), -4),
     BAND_C  |-> Float64(1, Small(17582229), -4),
     BAND_B  |-> Float64(1, Small(19742416), -4),
     BAND_G  |-> Float64(1, Small(18564104), -4),
     BAND_Y  |-> Float64(1, Small(17384791), -4),
     BAND_R  |-> Float64(1, Small(15594555), -4),
     BAND_RE |-> Float64(1, Small(13420695), -4),
     BAND_N  |-> Float64(1, Small(10697302), -4),
     BAND_N2 |-> Float64(1, Small(8612866), -4)]

\* Lines 136-137; the line continuation inside the literal keeps the next
\* line's indentation in the message.
MissingVariablesMessage ==
    "Error: Could not find required variables in the                           metadata file."

----------------------------------------------------------------------------
(* ExtractVariablesFromMetadata *)

FloatOf(r) == [raised |-> IF r.ok THEN "none" ELSE "ValueError", v |-> r.v]

\* Float reading None as 0.
FloatNoneIsZero(x) ==
    IF x.kind # "text" THEN [raised |-> "none", v |-> FromInt(0)]
    ELSE FloatOf(ParseFloat(x.chars))

\* float(x) of an element's text: TypeError for None, ValueError for a text
\* that is no number.
Float(x) ==
    IF x.kind # "text" THEN [raised |-> "TypeError", v |-> NaN]
    ELSE FloatOf(ParseFloat(x.chars))

\* Line 132: 90 - float(sunElevation).
Theta(sunElevation) == Sub(FromInt(90), sunElevation)

\* Lines 132-133: the list returned.  float(earthSunDist) is earthSunDist,
\* a float already: the distance, in millionths as EarthSunDistance has it.
Record(absCalFactor, sunElevation, earthSunDist, eSun, effectiveBandWidth) ==
    <<absCalFactor, Theta(sunElevation), earthSunDist, eSun, effectiveBandWidth>>

\* Lines 114-138: what the try block's body does; `caught` is the bare
\* except clause receiving `exc`, raised while reading `field`.
Returned(record) == [kind |-> "return", exc |-> "none", field |-> "", record |-> record]

Caught(exc, field) == [kind |-> "caught", exc |-> exc, field |-> field, record |-> <<>>]

Raised(exc, what) == [kind |-> "raise", exc |-> exc, field |-> what, record |-> <<>>]

\* Lines 119 and 132-133, of the four texts found.
Convert(b, esd, a, el, w) ==
    \* line 119
    IF esd.raised # "none" THEN Caught(esd.raised, "EARLIESTACQTIME")
    \* lines 132-133, left to right
    ELSE IF a.raised # "none" THEN Caught(a.raised, "ABSCALFACTOR")
    ELSE IF el.raised # "none" THEN Caught(el.raised, "MEANSUNEL")
    ELSE IF b \notin DOMAIN SSI THEN Caught("KeyError", "band")
    ELSE IF w.raised # "none" THEN Caught(w.raised, "EFFECTIVEBANDWIDTH")
    ELSE Returned(Record(a.v, el.v, esd.value, SSI[b], w.v))

\* Lines 115-118, of the four elements looked up: None has no attribute text.
ReadTexts(b, absCalFactor, effectiveBandWidth, sunElevation, acqTime) ==
    IF ~absCalFactor.found THEN Caught("AttributeError", "ABSCALFACTOR")
    ELSE IF ~effectiveBandWidth.found THEN Caught("AttributeError", "EFFECTIVEBANDWIDTH")
    ELSE IF ~sunElevation.found THEN Caught("AttributeError", "MEANSUNEL")
    ELSE IF ~acqTime.found THEN Caught("AttributeError", "EARLIESTACQTIME")
    ELSE Convert(b, EarthSunDistance(acqTime.text), Float(absCalFactor.text),
                 Float(sunElevation.text), Float(effectiveBandWidth.text))

TryBody(root, b) ==
    ReadTexts(b, Find(root, "IMD/" \o b \o "/ABSCALFACTOR"),
                 Find(root, "IMD/" \o b \o "/EFFECTIVEBANDWIDTH"),
                 Find(root, "IMD/IMAGE/MEANSUNEL"),
                 Find(root, "IMD/MAP_PROJECTED_PRODUCT/EARLIESTACQTIME"))

\* ExceptMessage naming the field that failed.
ExceptMessageNamingField(exc, field) ==
    "Error: Could not find " \o field \o " in the metadata file."

\* Lines 135-138: what the except clause passes to grass.message before
\* sys.exit(1).
ExceptMessage(exc, field) == MissingVariablesMessage

\* ExtractVariablesFromMetadata with the failures swallowed and a record of
\* defaults returned.
ExtractSwallowingErrors(f, b) ==
    IF f.state # "ok" \/ TryBody(f, b).kind = "caught"
    THEN Returned(<<FromInt(1), FromInt(0), 1000000, FromInt(1), FromInt(1)>>)
    ELSE TryBody(f, b)

\* Lines 110-138.  open() and etree.parse() stand before the try statement.
ExtractVariablesFromMetadata(f, b) ==
    IF f.state = "missing" THEN Raised("IOError", "file")
    ELSE IF f.state = "malformed" THEN Raised("ParseError", "file")
    ELSE TryBody(f, b)

----------------------------------------------------------------------------
(* CalculateTOAR *)

\* The expressions handed to grass.mapcalc, read with r.mapcalc's grammar
\* (^ binds tighter than * and /, which associate to the left).
Var(name) == [op |-> "var", name |-> name]

Bin(op, l, r) == [op |-> op, l |-> l, r |-> r]

\* Line 153: "$output = ($absCal * $input_rast) / $efb".
RadianceRhs == Bin("/", Bin("*", Var("absCal"), Var("input_rast")), Var("efb"))

RadianceCalc ==
    [text |-> "$output = ($absCal * $input_rast) / $efb",
     target |-> "output", rhs |-> RadianceRhs]

\* Line 159.
ReflectanceRhs ==
    Bin("/",
        Bin("*", Bin("*", RadianceRhs, [op |-> "sq", l |-> Var("esd")]), Var("pi")),
        Bin("*", Var("eSun"), [op |-> "cos", l |-> Var("theta")]))

ReflectanceCalc ==
    [text |-> "$output = ((($absCal * $input_rast) / $efb) * $esd^2 * $pi) / ($eSun * cos($theta))",
     target |-> "output", rhs |-> ReflectanceRhs]

\* math.pi, 0x1.921fb54442d18p+1.
Pi == Fin(1, 70742377, 52028440, -51)

\* CalculateTOAR without its use_temp_region call.
UseTempRegionOmitted == [op |-> "none"]

\* Line 149.
UseTempRegionCall == [op |-> "use_temp_region"]

\* Line 150.
GRegionCall(raster) == [op |-> "g.region", rast |-> raster]

\* Lines 155-156: the keyword arguments of the radiance call.
RadianceArgs(items, out) ==
    [output |-> out, absCal |-> items[2], input_rast |-> items[1], efb |-> items[6]]

\* ReflectanceArgs with absCal and efb taken from each other's place.
ReflectanceArgsShifted(items, out) ==
    [output |-> out, absCal |-> items[6], input_rast |-> items[1],
     esd |-> items[4], pi |-> Pi, eSun |-> items[5], theta |-> items[3],
     efb |-> items[2]]

\* Lines 161-163: the keyword arguments of the reflectance call.
ReflectanceArgs(items, out) ==
    [output |-> out, absCal |-> items[2], input_rast |-> items[1],
     esd |-> items[4], pi |-> Pi, eSun |-> items[5], theta |-> items[3],
     efb |-> items[6]]

\* Lines 152-163: the call made.
MapcalcCall(items, out, radiance) ==
    IF radiance
    THEN [op |-> "mapcalc", calc |-> RadianceCalc, args |-> RadianceArgs(items, out)]
    ELSE [op |-> "mapcalc", calc |-> ReflectanceCalc, args |-> ReflectanceArgs(items, out)]

\* What the expression is equal to for one pixel, as the formula it is
\* (spec.md 4.3): r.mapcalc, which computes it, is no part of this program.
\* A value is s * n / d, times the cosines of the angles in `up`, over
\* those in `down`; n and d are natural numbers and the angles are values,
\* in degrees.  cos(0) is 1 and cos(90) is 0; the cosine of any other
\* angle stays a factor, and is not zero for an angle under 270.  What is
\* divided by zero has no value, nor has what infinity or nan come into.
Real(s, n, d, up, down) ==
    [kind |-> "real", s |-> s, n |-> n, d |-> d, up |-> up, down |-> down]

Undefined == [kind |-> "undefined", s |-> 1, n |-> <<>>, d |-> <<>>, up |-> EmptyBag, down |-> EmptyBag]

\* The number a float64 is.
RealOf(a) ==
    IF a.kind # "fin" THEN Undefined
    ELSE IF a.q >= 0 THEN Real(a.s, Product(Mantissa(a), Power(2, a.q)), <<1>>, EmptyBag, EmptyBag)
    ELSE Real(a.s, Mantissa(a), Power(2, -a.q), EmptyBag, EmptyBag)

\* The values the $names of the expression stand for: the keyword
\* arguments, and for the raster the pixel's value DN.
Substituted(args, DN) ==
    [name \in DOMAIN args \ {"output"} |->
        IF name = "input_rast" THEN Real(1, Small(DN), <<1>>, EmptyBag, EmptyBag)
        ELSE IF name = "esd" THEN Real(1, Small(args.esd), Small(1000000), EmptyBag, EmptyBag)
        ELSE RealOf(args[name])]

MulReal(x, y) ==
    IF x.kind = "undefined" \/ y.kind = "undefined" THEN Undefined
    ELSE Real(x.s * y.s, Product(x.n, y.n), Product(x.d, y.d), x.up (+) y.up, x.down (+) y.down)

DivReal(x, y) ==
    IF x.kind = "undefined" \/ y.kind = "undefined" \/ y.n = <<>> THEN Undefined
    ELSE Real(x.s * y.s, Product(x.n, y.d), Product(x.d, y.n), x.up (+) y.down, x.down (+) y.up)

\* cos(x), x in degrees.
CosDegrees(x) ==
    IF x.kind = "undefined" THEN Undefined
    ELSE IF x.n = <<>> THEN Real(1, <<1>>, <<1>>, EmptyBag, EmptyBag)
    ELSE IF x.n = Product(<<90>>, x.d) THEN Real(1, <<>>, <<1>>, EmptyBag, EmptyBag)
    ELSE Real(1, <<1>>, <<1>>, SetToBag({x}), EmptyBag)

RECURSIVE Eval(_, _)
Eval(e, env) ==
    IF e.op = "var" THEN env[e.name]
    ELSE IF e.op = "*" THEN MulReal(Eval(e.l, env), Eval(e.r, env))
    ELSE IF e.op = "/" THEN DivReal(Eval(e.l, env), Eval(e.r, env))
    ELSE IF e.op = "sq" THEN MulReal(Eval(e.l, env), Eval(e.l, env))
    ELSE CosDegrees(Eval(e.l, env))

----------------------------------------------------------------------------
(* main *)

BandNames == {"Pan", "Coastal", "Blue", "Green", "Yellow", "Red", "Red Edge",
              "NIR1", "NIR2"}

\* Lines 176-184.
band_lookup ==
    ("Pan" :> "BAND_P") @@ ("Coastal" :> "BAND_C") @@ ("Blue" :> "BAND_B") @@
    ("Green" :> "BAND_G") @@ ("Yellow" :> "BAND_Y") @@ ("Red" :> "BAND_R") @@
    ("Red Edge" :> "BAND_RE") @@ ("NIR1" :> "BAND_N") @@ ("NIR2" :> "BAND_N2")

\* Lines 186-194.
band_num ==
    ("Pan" :> "P") @@ ("Coastal" :> "1") @@ ("Blue" :> "2") @@
    ("Green" :> "3") @@ ("Yellow" :> "4") @@ ("Red" :> "5") @@
    ("Red Edge" :> "6") @@ ("NIR1" :> "7") @@ ("NIR2" :> "8")

\* Lines 171 and 196-199: use_band_names is flag n.
OutputName(output_prefix, b, use_band_names) ==
    IF use_band_names THEN output_prefix \o "." \o band_lookup[b]
    ELSE output_prefix \o "." \o band_num[b]

\* The module's global names; main reads `bandLookup` on line 202.
Globals == {"sys", "os", "datetime", "math", "grass", "etree", "EarthSunDistance",
            "ExtractVariablesFromMetadata", "CalculateTOAR", "main", "options",
            "flags"}

\* Lines 67-74: the modules imported that an installation may lack.
ElementTreeModules ==
    {"xml.etree.cElementTree", "xml.etree.ElementTree", "elementtree.ElementTree"}

Modules == {"grass.script"} \cup ElementTreeModules

----------------------------------------------------------------------------
(* The calendar, walked day by day from 2000-01-01: SpecESD *)

\* The same time of day on the following calendar date.
NextDate(t) ==
    IF t.day < DaysInMonth(t.year, t.month) THEN [t EXCEPT !.day = t.day + 1]
    ELSE IF t.month < 12 THEN [t EXCEPT !.day = 1, !.month = t.month + 1]
    ELSE [t EXCEPT !.day = 1, !.month = 1, !.year = t.year + 1]

\* The same time of day on the calendar date before.
PrevDate(t) ==
    IF t.day > 1 THEN [t EXCEPT !.day = t.day - 1]
    ELSE IF t.month > 1
         THEN [t EXCEPT !.day = DaysInMonth(t.year, t.month - 1), !.month = t.month - 1]
    ELSE [t EXCEPT !.day = 31, !.month = 12, !.year = t.year - 1]

At(y, mo, d, h, mi, sec, us) ==
    [year |-> y, month |-> mo, day |-> d, hour |-> h, minute |-> mi,
     second |-> sec, microsecond |-> us]

\* The function is called alone, the variables of main's run at rest, at
\* one of four times of day: <<hour, minute, second, microsecond>>.
InitESD ==
    /\ environ = {"GISBASE"}
    /\ importable = Modules
    /\ options = [map |-> "", output_prefix |-> "", metadata_xml |-> "", band |-> ""]
    /\ flags = [n |-> FALSE, r |-> FALSE]
    /\ file = MissingFile
    /\ band = ""
    /\ output = ""
    /\ rastItems = <<>>
    /\ messages = <<>>
    /\ engine = <<>>
    /\ rasters = {}
    /\ exitCode = -1
    /\ pc = "esd_call"
    /\ exception = "none"
    /\ \E tod \in {<<0, 0, 0, 0>>, <<12, 0, 0, 0>>, <<16, 0, 0, 0>>, <<23, 59, 59, 999999>>} :
          cal = [year |-> 2000, month |-> 1, day |-> 1, hour |-> tod[1],
                 minute |-> tod[2], second |-> tod[3], microsecond |-> tod[4]]
    /\ elapsed = 0
    /\ date = Text(FormatTimestamp(cal))
    /\ dOut = DaysSinceJ2000(NoTime)
    /\ prevD = <<>>
    /\ esdOut = 0

\* EarthSunDistance(date) is called and returns, or raises.
Returns(r) ==
    /\ dOut' = r.D
    /\ esdOut' = r.value
    /\ exception' = r.raised

CallEarthSunDistance ==
    /\ pc = "esd_call"
    /\ Returns(EarthSunDistance(date))
    /\ pc' = "esd_ret"
    /\ UNCHANGED <<environ, importable, options, flags, file, band, output, rastItems, messages,
                   engine, rasters, exitCode, cal, elapsed, date, prevD>>

\* The caller goes on to the same time of day on the next calendar date.
NextDay ==
    /\ pc = "esd_ret"
    /\ exception = "none"
    /\ elapsed >= 0
    /\ NextDate(cal).year <= MaxYear
    /\ cal' = NextDate(cal)
    /\ elapsed' = elapsed + 1
    /\ date' = Text(FormatTimestamp(cal'))
    /\ prevD' = <<dOut>>
    /\ pc' = "esd_call"
    /\ UNCHANGED <<environ, importable, options, flags, file, band, output, rastItems, messages,
                   engine, rasters, exitCode, exception, dOut, esdOut>>

\* The caller goes back to the same time of day on the date before.
PrevDay ==
    /\ pc = "esd_ret"
    /\ exception = "none"
    /\ elapsed <= 0
    /\ PrevDate(cal).year >= MinYear
    /\ cal' = PrevDate(cal)
    /\ elapsed' = elapsed - 1
    /\ date' = Text(FormatTimestamp(cal'))
    /\ prevD' = <<dOut>>
    /\ pc' = "esd_call"
    /\ UNCHANGED <<environ, importable, options, flags, file, band, output, rastItems, messages,
                   engine, rasters, exitCode, exception, dOut, esdOut>>

\* Timestamps off the walk: the first and the last instant a datetime
\* holds, a date the calendar of 1582 left out, a timestamp with unpadded
\* numbers and lower-case letters; and, written as the format writes them,
\* a leap second, 30 February, the year 0000 and the hour 24.
OtherTimestamps ==
    {Text(FormatTimestamp(At(1, 1, 1, 0, 0, 0, 0))),
     Text(FormatTimestamp(At(9999, 12, 31, 23, 59, 59, 999999))),
     Text(FormatTimestamp(At(1582, 10, 10, 12, 0, 0, 0))),
     Text(<<"2", "0", "1", "3", "-", "7", "-", "1", "2", "t", "1", "6", ":", "0", ":", "0", ".", "0", "z">>),
     Text(FormatTimestamp(At(2016, 12, 31, 23, 59, 60, 0))),
     Text(FormatTimestamp(At(2013, 2, 30, 16, 0, 0, 0))),
     Text(FormatTimestamp(At(0, 1, 1, 0, 0, 0, 0))),
     Text(FormatTimestamp(At(2013, 7, 12, 24, 0, 0, 0)))}

\* Before the walk sets out the caller calls EarthSunDistance with a
\* timestamp off the walk; it returns, or raises.
CallOffTheWalk ==
    /\ pc = "esd_call"
    /\ elapsed = 0
    /\ date' \in OtherTimestamps
    /\ Returns(EarthSunDistance(date'))
    /\ pc' = "esd_done"
    /\ UNCHANGED <<environ, importable, options, flags, file, band, output, rastItems, messages,
                   engine, rasters, exitCode, cal, elapsed, prevD>>

NextESD == CallEarthSunDistance \/ NextDay \/ PrevDay \/ CallOffTheWalk

SpecESD == InitESD /\ [][NextESD]_vars

----------------------------------------------------------------------------
(* The inputs of a run *)

BandCodes == {"BAND_P", "BAND_C", "BAND_B", "BAND_G", "BAND_Y", "BAND_R",
              "BAND_RE", "BAND_N", "BAND_N2"}

\* A path the document has no element at.
Absent == [kind |-> "absent", chars |-> <<>>]

AbsCalTexts == {Text(<<"0", ".", "0", "1">>), Text(<<"9", ".", "2", "9", "5", "6", "5", "4", "e", "-", "0", "3">>),
                Text(<<"i", "n", "f">>)}

BandwidthTexts == {Text(<<"5", "0">>), Text(<<" ", "5", ".", "4", "3", "0", "0", "0", "0", "e", "-", "0", "2", " ">>)}

\* 90, 30 with a Devanagari zero, 65.2 on a line of its own, a sun a
\* billionth of a degree from the zenith, and one on the horizon.
SunElevationTexts == {Text(<<"9", "0">>), Text(<<"3", "U+0966">>), Text(<<"\n", "6", "5", ".", "2", "\n">>),
                      Text(<<"8", "9", ".", "9", "9", "9", "9", "9", "9", "9", "9", "9">>),
                      Text(<<"0">>)}

\* Timestamps strptime reads: the format as written, and one with unpadded
\* numbers, a blank-padded day, a full-width digit and lower-case letters.
GoodTimes == {Text(FormatTimestamp(At(2013, 7, 12, 16, 0, 0, 0))),
              Text(<<"2", "0", "0", "0", "-", "1", "-", " ", "1", "t", "1", "2", ":", "U+FF10", ":", "0", ".", "5", "z">>)}

\* Timestamps strptime rejects: no such date, a leap second, no fraction
\* of a second.
BadTimes == {Text(FormatTimestamp(At(2013, 2, 30, 16, 0, 0, 0))),
             Text(FormatTimestamp(At(2016, 12, 31, 23, 59, 60, 0))),
             Text(<<"2", "0", "1", "3", "-", "0", "7", "-", "1", "2", "T", "1", "6", ":", "0", "0", ":", "0", "0", "Z">>)}

\* A numeric field is absent, empty, the text n/a, or one of `texts`.
NumberFields(texts) == {Absent, None, Text(<<"n", "/", "a">>)} \cup texts

TimeFields == {Absent, None} \cup GoodTimes \cup BadTimes

\* The document whose reachable elements are those of band b and the image's.
DocumentOf(b, absCal, bandwidth, sunEl, acqTime) ==
    LET at == [path \in {"IMD/" \o b \o "/ABSCALFACTOR",
                         "IMD/" \o b \o "/EFFECTIVEBANDWIDTH",
                         "IMD/IMAGE/MEANSUNEL",
                         "IMD/MAP_PROJECTED_PRODUCT/EARLIESTACQTIME"} |->
                  IF path = "IMD/" \o b \o "/ABSCALFACTOR" THEN absCal
                  ELSE IF path = "IMD/" \o b \o "/EFFECTIVEBANDWIDTH" THEN bandwidth
                  ELSE IF path = "IMD/IMAGE/MEANSUNEL" THEN sunEl
                  ELSE acqTime]
        present == {path \in DOMAIN at : at[path].kind # "absent"}
    IN  Document([path \in present |-> at[path]])

\* file is a metadata file a run may be given for a document about band b.
IsFileAbout(f, b) ==
    \/ f = MissingFile
    \/ f = MalformedFile
    \/ \E a \in NumberFields(AbsCalTexts), w \in NumberFields(BandwidthTexts),
          el \in NumberFields(SunElevationTexts), t \in TimeFields :
          f = DocumentOf(b, a, w, el, t)

InputMaps == {"wv2_scene"}

Prefixes == {"toa", "refl"}

\* EarthSunDistance's variables, at rest while main or the extractor runs.
IdleESD ==
    /\ cal = NoTime
    /\ elapsed = 0
    /\ date = None
    /\ dOut = DaysSinceJ2000(NoTime)
    /\ prevD = <<>>
    /\ esdOut = 0

esdVars == <<cal, elapsed, date, dOut, prevD, esdOut>>

----------------------------------------------------------------------------
(* main, as the script runs it: Spec *)

\* The installations a run may find itself in: every module there, no
\* cElementTree (Python 3.9 and later), the ElementTree package alone, no
\* ElementTree at all, no GRASS library.
Init ==
    /\ pc = "import"
    /\ environ \in {{}, {"GISBASE"}}
    /\ importable \in {Modules,
                       Modules \ {"xml.etree.cElementTree"},
                       {"grass.script", "elementtree.ElementTree"},
                       {"grass.script"},
                       ElementTreeModules}
    /\ \E m \in InputMaps, prefix \in Prefixes, b \in BandNames :
          /\ options = [map |-> m, output_prefix |-> prefix,
                        metadata_xml |-> "metadata.xml", band |-> b]
          /\ IsFileAbout(file, band_lookup[b])
    /\ flags \in [n : BOOLEAN, r : BOOLEAN]
    /\ band = ""
    /\ output = ""
    /\ rastItems = <<>>
    /\ messages = <<>>
    /\ engine = <<>>
    /\ rasters = {}
    /\ exitCode = -1
    /\ exception = "none"
    /\ IdleESD

\* Lines 64-79: the imports.  Without grass.script line 67 raises
\* ImportError; when none of the three ElementTree modules is there the
\* script reports it and exits; the line continuation inside the literal
\* of lines 77-78 keeps the next line's indentation in the message.
ImportModules ==
    /\ pc = "import"
    /\ exception' = IF "grass.script" \notin importable THEN "ImportError" ELSE exception
    /\ messages' = IF "grass.script" \in importable /\ importable \cap ElementTreeModules = {}
                   THEN Append(messages,
                               "Error: unable to import ElementTree module to parse the                           XML metadata file.")
                   ELSE messages
    /\ exitCode' = IF "grass.script" \in importable /\ importable \cap ElementTreeModules # {}
                   THEN exitCode ELSE 1
    /\ pc' = IF "grass.script" \in importable /\ importable \cap ElementTreeModules # {}
             THEN "line_82" ELSE "exit"
    /\ UNCHANGED <<environ, importable, options, flags, file, band, output,
                   rastItems, engine, rasters>>
    /\ UNCHANGED esdVars

\* Lines 82-84, and lines 205-207 when GISBASE is set: grass.parser()
\* returns the options and flags, and main is called.
CheckGisbase ==
    /\ pc = "line_82"
    /\ messages' = IF "GISBASE" \notin environ
                   THEN Append(messages, "You bust be in GRASS GIS to run this program.")
                   ELSE messages
    /\ exitCode' = IF "GISBASE" \notin environ THEN 1 ELSE exitCode
    /\ pc' = IF "GISBASE" \notin environ THEN "exit" ELSE "main"
    /\ UNCHANGED <<environ, importable, options, flags, file, band, output,
                   rastItems, engine, rasters, exception>>
    /\ UNCHANGED esdVars

\* Lines 167-199: the options are read and the output's name is formed.
MainOutputName ==
    /\ pc = "main"
    /\ output' = OutputName(options.output_prefix, options.band, flags.n)
    /\ pc' = "main_202"
    /\ UNCHANGED <<environ, importable, options, flags, file, band, rastItems, messages, engine,
                   rasters, exitCode, exception>>
    /\ UNCHANGED esdVars

\* Line 202: the arguments of the call are evaluated first, and the name
\* bandLookup is bound nowhere: NameError, uncaught, ends the process with
\* a traceback and status 1 before ExtractVariablesFromMetadata is entered.
MainLookupBand ==
    /\ pc = "main_202"
    /\ "bandLookup" \notin Globals
    /\ exception' = "NameError"
    /\ exitCode' = 1
    /\ pc' = "exit"
    /\ UNCHANGED <<environ, importable, options, flags, file, band, output, rastItems, messages,
                   engine, rasters>>
    /\ UNCHANGED esdVars

Next == ImportModules \/ CheckGisbase \/ MainOutputName \/ MainLookupBand

Spec == Init /\ [][Next]_vars

----------------------------------------------------------------------------
(* The functions as lines 202-203 compose them, called with a band code:  *)
(* SpecCall                                                                *)

InitCall ==
    /\ pc = "extract"
    /\ environ = {"GISBASE"}
    /\ importable = Modules
    /\ \E m \in InputMaps, b \in BandCodes \cup {"BAND_X"} :
          /\ options = [map |-> m, output_prefix |-> "toa",
                        metadata_xml |-> "metadata.xml", band |-> ""]
          /\ band = b
          /\ \E docBand \in {b, "BAND_R"} : IsFileAbout(file, docBand)
          /\ output = "toa." \o b
    /\ flags \in [n : {FALSE}, r : BOOLEAN]
    /\ rastItems = <<>>
    /\ messages = <<>>
    /\ engine = <<>>
    /\ rasters = {}
    /\ exitCode = -1
    /\ exception = "none"
    /\ IdleESD

\* ExtractVariablesFromMetadata(metadata_path, band) runs: it returns the
\* list that line 202 prepends the input map to, or its except clause
\* reports and exits (lines 135-138), or an exception leaves it uncaught.
Ends(r) ==
    /\ rastItems' = IF r.kind = "return" THEN <<options.map>> \o r.record
                    ELSE rastItems
    /\ messages' = IF r.kind = "caught"
                   THEN Append(messages, ExceptMessage(r.exc, r.field))
                   ELSE messages
    /\ exception' = IF r.kind = "raise" THEN r.exc ELSE exception
    /\ exitCode' = IF r.kind = "return" THEN exitCode ELSE 1
    /\ pc' = IF r.kind = "return" THEN "calc_149" ELSE "exit"

CallExtractVariables ==
    /\ pc = "extract"
    /\ Ends(ExtractVariablesFromMetadata(file, band))
    /\ UNCHANGED <<environ, importable, options, flags, file, band, output, engine, rasters>>
    /\ UNCHANGED esdVars

\* Line 149.
UseTempRegion ==
    /\ pc = "calc_149"
    /\ engine' = Append(engine, UseTempRegionCall)
    /\ pc' = "calc_150"
    /\ UNCHANGED <<environ, importable, options, flags, file, band, output, rastItems, messages,
                   rasters, exitCode, exception>>
    /\ UNCHANGED esdVars

\* Line 150.
RunGRegion ==
    /\ pc = "calc_150"
    /\ engine' = Append(engine, GRegionCall(rastItems[1]))
    /\ pc' = "calc_152"
    /\ UNCHANGED <<environ, importable, options, flags, file, band, output, rastItems, messages,
                   rasters, exitCode, exception>>
    /\ UNCHANGED esdVars

\* Lines 152-163: the message, then the expression is evaluated into the
\* output raster.
Mapcalc ==
    /\ pc = "calc_152"
    /\ messages' = Append(messages,
                           IF flags.r
                           THEN "Calculating Top of Atmosphere Radiance for " \o rastItems[1]
                           ELSE "Calculating Top of Atmosphere Reflectance for " \o rastItems[1])
    /\ engine' = Append(engine, MapcalcCall(rastItems, output, flags.r))
    /\ rasters' = rasters \cup {output}
    /\ pc' = "calc_ret"
    /\ UNCHANGED <<environ, importable, options, flags, file, band, output, rastItems, exitCode,
                   exception>>
    /\ UNCHANGED esdVars

\* CalculateTOAR returns, main returns, the script ends.
MainReturn ==
    /\ pc = "calc_ret"
    /\ exitCode' = 0
    /\ pc' = "exit"
    /\ UNCHANGED <<environ, importable, options, flags, file, band, output, rastItems, messages,
                   engine, rasters, exception>>
    /\ UNCHANGED esdVars

NextCall == CallExtractVariables \/ UseTempRegion \/ RunGRegion \/ Mapcalc \/ MainReturn

SpecCall == InitCall /\ [][NextCall]_vars

----------------------------------------------------------------------------
(* What a run was given, read off the inputs alone *)

RequiredPaths(b) ==
    {"IMD/" \o b \o "/ABSCALFACTOR", "IMD/" \o b \o "/EFFECTIVEBANDWIDTH",
     "IMD/IMAGE/MEANSUNEL", "IMD/MAP_PROJECTED_PRODUCT/EARLIESTACQTIME"}

NumberPaths(b) ==
    {"IMD/" \o b \o "/ABSCALFACTOR", "IMD/" \o b \o "/EFFECTIVEBANDWIDTH",
     "IMD/IMAGE/MEANSUNEL"}

\* A required field's element is absent from the document, or has no text.
FieldMissing(f, b) ==
    /\ f.state = "ok"
    /\ \E path \in RequiredPaths(b) :
          path \notin DOMAIN f.nodes \/ f.nodes[path].kind = "none"

\* Every required field is there, a number where a number is expected.
FieldsUsable(f, b) ==
    /\ f.state = "ok"
    /\ ~FieldMissing(f, b)
    /\ \A path \in NumberPaths(b) : ParseFloat(f.nodes[path].chars).ok

TimestampUsable(f) ==
    Strptime(f.nodes["IMD/MAP_PROJECTED_PRODUCT/EARLIESTACQTIME"].chars).ok

\* The metadata is well-formed, complete and correctly formatted for band b.
ValidMetadata(f, b) == FieldsUsable(f, b) /\ TimestampUsable(f) /\ b \in BandCodes

MapcalcCalls == {i \in 1..Len(engine) : engine[i].op = "mapcalc"}

----------------------------------------------------------------------------
(* C1 *)

\* C1: a run of main, inside GRASS, on one of the nine band names and valid metadata ends
\* with exactly one mapcalc evaluation, one output raster and exit code 0.
\* As the run's final result: whenever such a run has ended, it ended so.
C1_ValidRunProducesRaster ==
    (pc = "exit" /\ "GISBASE" \in environ /\ importable = Modules
        /\ options.band \in BandNames
        /\ ValidMetadata(file, band_lookup[options.band]))
    => /\ exitCode = 0
       /\ Cardinality(MapcalcCalls) = 1
       /\ Cardinality(rasters) = 1

----------------------------------------------------------------------------
(* C2 *)

\* C2: when metadata extraction or the parsing of the acquisition time
\* fails, the raster engine is never called and no output raster exists, in
\* any state of the run, and the run ends with a non-zero status.
C2_NoRasterAfterFailedExtraction ==
    ~ValidMetadata(file, band)
    => /\ engine = <<>>
       /\ rasters = {}
       /\ pc \in {"extract", "exit"}
       /\ pc = "exit" => exitCode = 1

\* A run that ended on a timestamp strptime rejects, all else being valid.
C2_Witness ==
    /\ pc = "exit"
    /\ FieldsUsable(file, band)
    /\ band \in BandCodes
    /\ ~TimestampUsable(file)
    /\ exitCode = 1
    /\ rasters = {}

----------------------------------------------------------------------------
(* C3 *)

\* C3: the output raster is named <prefix>.<number code> when flag n ("Use
\* band numbers instead of letters") is set and <prefix>.<mnemonic code>
\* when it is not.
C3_FlagNSelectsNumbers ==
    (pc = "main_202" \/ (pc = "exit" /\ exception = "NameError"))
    => output = options.output_prefix \o "." \o
                (IF flags.n THEN band_num[options.band] ELSE band_lookup[options.band])

----------------------------------------------------------------------------
(* C4 *)

\* C4: when one of the four required fields is absent from a well-formed
\* document, or has no text, the extractor ends in its handled error: the
\* diagnostic, exit code 1, no uncaught exception, and no record, whole or
\* partial, is returned.
C4_MissingFieldIsHandled ==
    FieldMissing(file, band)
    => /\ pc \in {"extract", "exit"}
       /\ rastItems = <<>>
       /\ exception = "none"
       /\ pc = "exit" => (exitCode = 1 /\ messages = <<MissingVariablesMessage>>)

\* A run that ended on an ABSCALFACTOR element without text, the other
\* fields being valid.
C4_Witness ==
    /\ pc = "exit"
    /\ file.state = "ok"
    /\ band \in BandCodes
    /\ RequiredPaths(band) \subseteq DOMAIN file.nodes
    /\ file.nodes["IMD/" \o band \o "/ABSCALFACTOR"].kind = "none"
    /\ \A path \in RequiredPaths(band) \ {"IMD/" \o band \o "/ABSCALFACTOR"} :
          file.nodes[path].kind = "text"
    /\ ParseFloat(file.nodes["IMD/" \o band \o "/EFFECTIVEBANDWIDTH"].chars).ok
    /\ ParseFloat(file.nodes["IMD/IMAGE/MEANSUNEL"].chars).ok
    /\ TimestampUsable(file)
    /\ exitCode = 1
    /\ messages = <<MissingVariablesMessage>>

----------------------------------------------------------------------------
(* C5 *)

\* C5: a metadata file that is not well-formed markup ends the extractor in
\* its handled error, like the other extraction failures: the diagnostic
\* and exit code 1, no exception leaving the extractor.
C5_ParseErrorIsHandled ==
    (pc = "exit" /\ file.state = "malformed")
    => /\ exitCode = 1
       /\ exception = "none"
       /\ messages # <<>>

----------------------------------------------------------------------------
(* C6 *)

\* The diagnostic of a run on file f and band b that the except clause ends.
DiagnosticOf(f, b) ==
    LET r == ExtractVariablesFromMetadata(f, b)
    IN  ExceptMessage(r.exc, r.field)

FailedOn(f, b) == ExtractVariablesFromMetadata(f, b).field

Usable(b) ==
    DocumentOf(b, Text(<<"0", ".", "0", "1">>), Text(<<"5", "0">>),
               Text(<<"9", "0">>), Text(FormatTimestamp(At(2013, 7, 12, 16, 0, 0, 0))))

\* Runs that fail on a missing ABSCALFACTOR, on a malformed EARLIESTACQTIME
\* and on a band absent from the irradiance table.
ReferenceFailures ==
    {<<DocumentOf("BAND_R", Absent, Text(<<"5", "0">>), Text(<<"9", "0">>),
                  Text(FormatTimestamp(At(2013, 7, 12, 16, 0, 0, 0)))), "BAND_R">>,
     <<DocumentOf("BAND_R", Text(<<"0", ".", "0", "1">>), Text(<<"5", "0">>),
                  Text(<<"9", "0">>), Text(<<"2", "0", "1", "3">>)), "BAND_R">>,
     <<Usable("BAND_X"), "BAND_X">>}

HandledFailure ==
    /\ pc = "exit"
    /\ ExtractVariablesFromMetadata(file, band).kind = "caught"

\* C6, as claimed: the diagnostic of a failed extraction identifies the
\* cause, so a run that failed on one field ends with a diagnostic other
\* than that of a run that failed on another.
C6_DiagnosticIdentifiesCause ==
    HandledFailure
    => /\ messages # <<>>
       /\ \A ref \in ReferenceFailures :
             FailedOn(ref[1], ref[2]) # FailedOn(file, band)
             => DiagnosticOf(ref[1], ref[2]) # messages[Len(messages)]

\* C6, amended: every extraction failure that the except clause handles
\* ends with the one generic diagnostic and exit code 1, whatever the cause.
C6_OneGenericDiagnostic ==
    HandledFailure
    => /\ messages = <<MissingVariablesMessage>>
       /\ exitCode = 1
       /\ exception = "none"
       /\ \A ref \in ReferenceFailures :
             DiagnosticOf(ref[1], ref[2]) = messages[Len(messages)]

\* A run that ended on a malformed EARLIESTACQTIME, with the diagnostic
\* that a missing ABSCALFACTOR gets.
C6_Witness ==
    /\ HandledFailure
    /\ FailedOn(file, band) = "EARLIESTACQTIME"
    /\ FieldsUsable(file, band)
    /\ ~TimestampUsable(file)
    /\ messages = <<DiagnosticOf(DocumentOf("BAND_R", Absent, Text(<<"5", "0">>),
                                            Text(<<"9", "0">>), None), "BAND_R")>>

----------------------------------------------------------------------------
(* C7 *)

\* The text is written as the metadata writes a timestamp:
\* dddd-dd-ddTdd:dd:dd.ddddddZ.
HasTimestampSyntax(chars) ==
    /\ Len(chars) = 27
    /\ \A i \in 1..27 :
          IF i \in {5, 8} THEN chars[i] = "-"
          ELSE IF i = 11 THEN chars[i] = "T"
          ELSE IF i \in {14, 17} THEN chars[i] = ":"
          ELSE IF i = 20 THEN chars[i] = "."
          ELSE IF i = 27 THEN chars[i] = "Z"
          ELSE chars[i] \in AsciiDigits(0, 9)

\* A text so written names an instant of the calendar's years 1 to 9999:
\* a month, a day the month has, and a time of day before 24:00:00.
NamesInstant(chars) ==
    /\ NumAt(chars, 1, 4) \in 1..9999
    /\ NumAt(chars, 6, 2) \in 1..12
    /\ NumAt(chars, 9, 2) >= 1
    /\ NumAt(chars, 9, 2) <=
          (IF NumAt(chars, 6, 2) \in {4, 6, 9, 11} THEN 30
           ELSE IF NumAt(chars, 6, 2) # 2 THEN 31
           ELSE IF \/ NumAt(chars, 1, 4) % 400 = 0
                   \/ NumAt(chars, 1, 4) % 4 = 0 /\ NumAt(chars, 1, 4) % 100 # 0
           THEN 29 ELSE 28)
    /\ NumAt(chars, 12, 2) <= 23
    /\ NumAt(chars, 15, 2) <= 59
    /\ NumAt(chars, 18, 2) <= 59

\* C7 as stated: for every syntactically valid acquisition timestamp, of
\* any year, month, day and time of day, EarthSunDistance does not fail and
\* returns a value in [0.983, 1.017] AU.
C7_NeverFailsOnValidSyntax ==
    (pc \in {"esd_ret", "esd_done"} /\ HasTimestampSyntax(date.chars))
    => /\ exception = "none"
       /\ esdOut >= 983000
       /\ esdOut <= 1017000

\* C7, amended: EarthSunDistance fails on no timestamp but one strptime
\* rejects, with ValueError, and whenever it returns, its value lies in
\* [0.983, 1.017] AU; of the timestamps written as the metadata writes them
\* strptime accepts those that name an instant of the years 1 to 9999, and
\* rejects the others.
C7_DistanceInPhysicalRange ==
    pc \in {"esd_ret", "esd_done"}
    => /\ exception \in {"none", "ValueError"}
       /\ exception = "none" => (esdOut >= 983000 /\ esdOut <= 1017000)
       /\ HasTimestampSyntax(date.chars)
             => (exception = "none" <=> NamesInstant(date.chars))

\* The call for 2013-07-12T16:00:00.000000Z has returned 1.01657.
C7_Witness ==
    /\ pc = "esd_ret"
    /\ date = Text(FormatTimestamp(At(2013, 7, 12, 16, 0, 0, 0)))
    /\ HasTimestampSyntax(date.chars)
    /\ NamesInstant(date.chars)
    /\ exception = "none"
    /\ esdOut = 1016570

----------------------------------------------------------------------------
(* C8 *)

SampleDN == {0, 1000, 2000}

\* The whole number n and the fraction n / d, as values of an expression.
Whole(n) == Real(1, Small(n), <<1>>, EmptyBag, EmptyBag)

Fraction(n, d) == Real(1, Small(n), Small(d), EmptyBag, EmptyBag)

\* x and y are the same number.
Same(x, y) ==
    /\ x.kind = "real"
    /\ y.kind = "real"
    /\ Product(x.n, y.d) = Product(y.n, x.d)
    /\ x.n # <<>> => (x.s = y.s /\ x.up (+) y.down = y.up (+) x.down)

\* The float64 that float() makes of each number text of the inputs, by
\* IEEE 754: 0.01 is 0x1.47ae147ae147bp-7, 9.295654e-03 is
\* 0x1.309998f664288p-7, 50 is 0x1.9p+5 and 5.430000e-02 is
\* 0x1.bcd35a858793ep-5.
ExpectedFloat(x) ==
    IF x = Text(<<"0", ".", "0", "1">>) THEN Fin(1, 57646075, 23034235, -59)
    ELSE IF x = Text(<<"9", ".", "2", "9", "5", "6", "5", "4", "e", "-", "0", "3">>)
    THEN Fin(1, 53585796, 97992328, -59)
    ELSE IF x = Text(<<"i", "n", "f">>) THEN Inf(1)
    ELSE IF x = Text(<<"5", "0">>) THEN Fin(1, 70368744, 17766400, -47)
    ELSE Fin(1, 78254547, 12518974, -57)

\* 90 less each sun elevation of the inputs, in float64: 0 for 90, 60 for
\* 30, 24.799999999999997 = 0x1.8ccccccccccccp+4 for 65.2,
\* 1.0000036354540498e-09 = 0x1.12e0000000000p-30 for 89.999999999, and
\* 90 for 0.
ExpectedZenith(x) ==
    IF x = Text(<<"9", "0">>) THEN Fin(1, 0, 0, 0)
    ELSE IF x = Text(<<"3", "U+0966">>) THEN Fin(1, 84442493, 1319680, -47)
    ELSE IF x = Text(<<"\n", "6", "5", ".", "2", "\n">>) THEN Fin(1, 69805794, 22424268, -48)
    ELSE IF x = Text(<<"0">>) THEN Fin(1, 63331869, 75989760, -46)
    ELSE Fin(1, 48357208, 58435584, -82)

\* The irradiances of lines 122-130 in float64: 1580.8140 is
\* 0x1.8b34189374bc7p+10, and so on.
ExpectedIrradiance ==
    [BAND_P  |-> Fin(1, 69524934, 97404359, -42),
     BAND_C  |-> Fin(1, 77327460, 91088157, -42),
     BAND_B  |-> Fin(1, 86828063, 80956379, -42),
     BAND_G  |-> Fin(1, 81645792, 82897181, -42),
     BAND_Y  |-> Fin(1, 76459119, 40382222, -42),
     BAND_R  |-> Fin(1, 68585578, 20996944, -42),
     BAND_RE |-> Fin(1, 59024840, 82134090, -42),
     BAND_N  |-> Fin(1, 47047231, 73932584, -42),
     BAND_N2 |-> Fin(1, 75759570, 52381253, -43)]

\* What lines 91-107 return for each timestamp of the inputs, to the
\* nearest millionth: 1.0165701807243162 on 2013-07-12 at 16:00 and
\* 0.983306057824286 on 2000-01-01 at 12:00:00.5.
ExpectedDistance(x) ==
    IF x = Text(FormatTimestamp(At(2013, 7, 12, 16, 0, 0, 0))) THEN 1016570 ELSE 983306

\* Distances that differ by no more than 3 millionths, which is how far
\* the distance in millionths is from the float64 of line 107.
Near(a, b) == a - b <= 3 /\ b - a <= 3

\* C8: CalculateTOAR issues one expression, chosen by flag r, whose names
\* are bound to the record extracted for the band: absCal = ABSCALFACTOR,
\* efb = EFFECTIVEBANDWIDTH, theta = 90 - MEANSUNEL, esd = the Earth-Sun
\* distance, eSun = the band's irradiance.  With r the expression is
\* (absCal * DN) / efb, which is 0.2 for absCal = 0.01, efb = 50,
\* DN = 1000; without r it is that radiance times esd^2 * pi over
\* eSun * cos(theta), which for theta = 0 and esd = 1 is radiance * pi / eSun.
C8_ExpressionAndBindings ==
    (pc \in {"calc_ret", "exit"} /\ engine # <<>>)
    => LET call     == engine[Len(engine)]
           is(DN)   == Substituted(call.args, DN)
           value(DN) == Eval(call.calc.rhs, is(DN))
           \* the arguments with absCal = 0.01, efb = 50, esd = 1, theta = 0
           sample(DN) == [is(DN) EXCEPT !["absCal"] = Fraction(1, 100),
                                        !["efb"] = Whole(50),
                                        !["esd"] = Whole(1),
                                        !["theta"] = Whole(0)]
       IN  /\ Cardinality(MapcalcCalls) = 1
           /\ call.op = "mapcalc"
           /\ call.args.output = output
           /\ call.args.input_rast = options.map
           /\ call.args.absCal = ExpectedFloat(file.nodes["IMD/" \o band \o "/ABSCALFACTOR"])
           /\ call.args.efb = ExpectedFloat(file.nodes["IMD/" \o band \o "/EFFECTIVEBANDWIDTH"])
           /\ flags.r =>
                 /\ call.calc.text = "$output = ($absCal * $input_rast) / $efb"
                 /\ DOMAIN call.args = {"output", "absCal", "input_rast", "efb"}
                 /\ Same(Eval(call.calc.rhs,
                              [is(1000) EXCEPT !["absCal"] = Fraction(1, 100),
                                               !["efb"] = Whole(50)]),
                         Fraction(1, 5))
                 /\ \A DN \in SampleDN :
                       /\ value(DN).kind = "undefined" <=> call.args.absCal.kind = "inf"
                       /\ value(DN).kind = "real" =>
                             Same(MulReal(value(DN), is(DN).efb),
                                  MulReal(is(DN).absCal, Whole(DN)))
           /\ ~flags.r =>
                 /\ call.calc.text =
                       "$output = ((($absCal * $input_rast) / $efb) * $esd^2 * $pi) / ($eSun * cos($theta))"
                 /\ DOMAIN call.args = {"output", "absCal", "input_rast", "efb",
                                        "esd", "pi", "eSun", "theta"}
                 /\ call.args.theta = ExpectedZenith(file.nodes["IMD/IMAGE/MEANSUNEL"])
                 /\ Near(call.args.esd,
                         ExpectedDistance(file.nodes["IMD/MAP_PROJECTED_PRODUCT/EARLIESTACQTIME"]))
                 /\ call.args.eSun = ExpectedIrradiance[band]
                 /\ call.args.pi = Fin(1, 70742377, 52028440, -51)
                 /\ call.calc.rhs.l.l.l = RadianceRhs
                 /\ \A DN \in SampleDN :
                       /\ Same(Eval(call.calc.rhs, sample(DN)),
                               DivReal(MulReal(Eval(RadianceRhs, sample(DN)), is(DN).pi),
                                       is(DN).eSun))
                       /\ Same(Eval(RadianceRhs, sample(DN)), Fraction(DN, 5000))
                       /\ value(DN).kind = "undefined"
                             <=> \/ call.args.absCal.kind = "inf"
                                 \/ call.args.theta = Fin(1, 63331869, 75989760, -46)
                       /\ value(DN).kind = "real" =>
                             Same(MulReal(MulReal(MulReal(value(DN), is(DN).eSun),
                                                  CosDegrees(is(DN).theta)),
                                          is(DN).efb),
                                  MulReal(MulReal(MulReal(MulReal(is(DN).absCal, Whole(DN)),
                                                          is(DN).esd),
                                                  is(DN).esd),
                                          is(DN).pi))

\* A reflectance run for the red band with ABSCALFACTOR 0.01,
\* EFFECTIVEBANDWIDTH 50 and the sun at the zenith has ended: theta is
\* bound to 0, and at absCal = 1/100, esd = 1 and DN = 1000 the expression
\* is 0.2 * pi / eSun.
C8_Witness ==
    /\ pc = "exit"
    /\ exitCode = 0
    /\ ~flags.r
    /\ band = "BAND_R"
    /\ Cardinality(MapcalcCalls) = 1
    /\ file.nodes["IMD/BAND_R/ABSCALFACTOR"] = Text(<<"0", ".", "0", "1">>)
    /\ file.nodes["IMD/IMAGE/MEANSUNEL"] = Text(<<"9", "0">>)
    /\ engine[Len(engine)].args.absCal = Fin(1, 57646075, 23034235, -59)
    /\ engine[Len(engine)].args.efb = Fin(1, 70368744, 17766400, -47)
    /\ engine[Len(engine)].args.theta = Fin(1, 0, 0, 0)
    /\ engine[Len(engine)].args.eSun = Fin(1, 68585578, 20996944, -42)
    /\ Same(Eval(engine[Len(engine)].calc.rhs,
                 [Substituted(engine[Len(engine)].args, 1000)
                    EXCEPT !["absCal"] = Fraction(1, 100), !["esd"] = Whole(1)]),
            DivReal(MulReal(Fraction(1, 5), RealOf(Fin(1, 70742377, 52028440, -51))),
                    RealOf(Fin(1, 68585578, 20996944, -42))))

----------------------------------------------------------------------------
(* C9 *)

\* C9: D, as EarthSunDistance computes it, is the number of days, with the
\* fraction of a day, from 2000-01-01T12:00:00 to the timestamp: 0 at that
\* instant, and 1 more at the same time of day on the next calendar date,
\* across the ends of months and years, January, February and 29 February.
C9_DaysSinceJ2000 ==
    pc = "esd_ret"
    => /\ dOut.days = elapsed
       /\ dOut.sec = (cal.hour * 3600 + cal.minute * 60 + cal.second) - 12 * 3600
       /\ dOut.usec = cal.microsecond
       /\ (cal = At(2000, 1, 1, 12, 0, 0, 0))
             => dOut = [days |-> 0, sec |-> 0, usec |-> 0]
       /\ (prevD # <<>> /\ elapsed > 0)
             => dOut = [prevD[1] EXCEPT !.days = prevD[1].days + 1]
       /\ (prevD # <<>> /\ elapsed < 0)
             => prevD[1] = [dOut EXCEPT !.days = dOut.days + 1]

\* D of 2000-03-01 is 60 days, one more than D of 29 February 2000.
C9_Witness ==
    /\ pc = "esd_ret"
    /\ cal.year = 2000 /\ cal.month = 3 /\ cal.day = 1
    /\ prevD # <<>>
    /\ prevD[1].days = 59
    /\ dOut.days = 60

----------------------------------------------------------------------------
(* C10 *)

EngineOps == [i \in 1..Len(engine) |-> engine[i].op]

\* C10: CalculateTOAR calls use_temp_region, then g.region on the input
\* raster, then mapcalc: no expression is evaluated before the region is
\* set to the input raster, and the region is not set before the temporary
\* region is in use.
C10_RegionBeforeMapcalc ==
    /\ \A i \in 1..Len(engine) :
          /\ engine[i].op = "mapcalc"
                => \E j \in 1..(i - 1) :
                      /\ engine[j].op = "g.region"
                      /\ engine[j].rast = options.map
                      /\ engine[i].args.input_rast = engine[j].rast
          /\ engine[i].op = "g.region"
                => \E j \in 1..(i - 1) : engine[j].op = "use_temp_region"
    /\ pc \in {"calc_ret", "exit"} /\ exitCode # 1
          => EngineOps = <<"use_temp_region", "g.region", "mapcalc">>

\* CalculateTOAR has returned from a reflectance run.
C10_Witness ==
    /\ pc = "calc_ret"
    /\ ~flags.r
    /\ EngineOps = <<"use_temp_region", "g.region", "mapcalc">>
    /\ rasters = {output}

=============================================================================
